---- MODULE Spec2Model ----
(***************************************************************************)
(* ipcount: a visitor ledger (bbolt bucket keyed by HMAC-SHA-256 of the    *)
(* visitor address) behind three HTTP handlers: /add, /count, /countries.  *)
(* The model follows the GeoIP-capable variant of main.go; the older       *)
(* variant differs only in the record layout (8 bytes, no country field).  *)
(*                                                                         *)
(* Every request runs on its own goroutine (net/http); a goroutine's       *)
(* position is pc[p].  The steps are the places where goroutines can       *)
(* interleave: the three calls on the shared hasher, the reading of the    *)
(* clock, the acquisition of BoltDB.lock and the transaction.              *)
(*                                                                         *)
(* Specifications:                                                         *)
(*   Spec           the service under its config.ini, any requests         *)
(*   SpecSeq        the same, each request sent after the last response    *)
(*   SpecCodec      Encode / DecodeEntry on records of every code length   *)
(*   SpecAnyConfig  the service started under any config.ini               *)
(*   FairSpec       the HTTP routes under the scheduler's fairness         *)
(***************************************************************************)
EXTENDS Integers, Sequences, FiniteSets, TLC

\* ---------------------------------------------------------------- bounds
NProcs == 2         \* goroutines serving requests at the same time
MaxReqs == 2        \* requests served in one behaviour
MaxTime == 2        \* the clock stops here (ticks)
Second == 2         \* clock ticks per second: time.Now() is finer than Unix()
MinuteSeconds == 1  \* seconds per minute on the model's scale (60 in package time)

Procs == 1..NProcs

\* time.Minute and time.Hour, the minute scaled down so that a whole window
\* fits below MaxTime
Minute == MinuteSeconds * Second
Hour == 60 * Minute

\* ------------------------------------------------------------ input sets
IPs == {"a", "b"}                  \* the ip query parameter; "" is the absent one
US == <<85, 83>>                   \* "US"
FR == <<70, 82>>                   \* "FR"
Countries == {US, FR}              \* what the GeoIP reader can answer
KeyTotal == <<84, 111, 116, 97, 108>>                 \* "Total"
KeyUnknown == <<85, 110, 107, 110, 111, 119, 110>>    \* "Unknown"
Secret == "s"                      \* "secret" of config.ini

StatusOK == 200
StatusBadRequest == 400

\* ------------------------------------------------------------- Threshold
VARIABLES
    config,           \* Server.config: the keys config.ini sets, with their values
    ActiveThreshold   \* Server.ActiveThreshold.duration, in ticks

NewThreshold(days, hours, minutes) == (((days * 24) + hours) * Hour) + (minutes * Minute)

\* The config.ini the service runs under here: days = 0, hours = 0, minutes = 1
ConfigIni == [k \in {"days", "hours", "minutes"} |-> IF k = "minutes" THEN 1 ELSE 0]

\* The window NewServer computes from ConfigIni
Duration == NewThreshold(0, 0, 1)

\* MustInt giving 0 for a key the file does not set.
MustIntZero(cfg, key, defaultVal) == IF key \in DOMAIN cfg THEN cfg[key] ELSE 0

\* Key(key).MustInt(defaultVal): the key's value, or defaultVal when the file
\* does not set the key
MustInt(cfg, key, defaultVal) == IF key \in DOMAIN cfg THEN cfg[key] ELSE defaultVal

\* s.ActiveThreshold = NewThreshold(MustInt(0), MustInt(2), MustInt(0))
NewServer(cfg) ==
    NewThreshold(MustInt(cfg, "days", 0), MustInt(cfg, "hours", 2), MustInt(cfg, "minutes", 0))

\* Valid with the comparison made inclusive (!Before instead of After).
ValidInclusive(t, clock) == t + ActiveThreshold >= clock

\* t.Add(threshold.duration).After(time.Now())
Valid(t, clock) == t + ActiveThreshold > clock

\* ------------------------------------------------------------------ hash
\* hmac.New(sha256.New, secret) summed over the bytes written since the last
\* Reset: a keyed digest is modelled as the pair it is an injective image of.
Sum(buf) == <<Secret, buf>>

\* The digest HMACSha256.Hash returns when nothing else touches the hasher.
Fingerprint(ip) == Sum(<<ip>>)

\* ----------------------------------------------------------------- codec
RECURSIVE PutUint64(_, _)
PutUint64(v, n) == IF n = 0 THEN <<>> ELSE <<v % 256>> \o PutUint64(v \div 256, n - 1)

RECURSIVE Uint64(_)
Uint64(b) == IF b = <<>> THEN 0 ELSE b[1] + 256 * Uint64(Tail(b))

\* time.Time.Unix(): whole seconds, the fraction dropped
Unix(t) == t \div Second

\* time.Unix(sec, 0)
TimeUnix(sec) == sec * Second

Entry(lastVisit, country) == [LastVisit |-> lastVisit, CountryISOCode |-> country]

\* Encode copying one byte of the country less than the field holds.
EncodeSeven(e) ==
    PutUint64(Unix(e.LastVisit), 8)
        \o [i \in 1..8 |-> IF i <= Len(e.CountryISOCode) /\ i < 8 THEN e.CountryISOCode[i] ELSE 0]

Encode(e) ==
    PutUint64(Unix(e.LastVisit), 8)
        \o [i \in 1..8 |-> IF i <= Len(e.CountryISOCode) THEN e.CountryISOCode[i] ELSE 0]

NonZero(x) == x # 0

\* The entry DecodeEntry returns.
DecodeEntry(b) ==
    Entry(TimeUnix(Uint64(SubSeq(b, 1, 8))), SelectSeq(SubSeq(b, 9, 16), NonZero))

\* The caller's slice after DecodeEntry: every non-zero byte of 8..15 was set to 0.
DecodeEntryBuf(b) == [i \in 1..16 |-> IF i > 8 THEN 0 ELSE b[i]]

\* Whether DecodeEntry stores into the slice at all.
DecodeEntryWrites(b) == \E i \in 9..16 : b[i] # 0


\* ----------------------------------------------------------------- state
VARIABLES
    now,      \* the wall clock, in ticks
    GeoIP,    \* Server.GeoIP / BoltDB.GeoIP: geoip2_db was given in config.ini
    db,       \* the committed bucket: fingerprint -> 16-byte value
    lock,     \* BoltDB.lock: 0 when free, else the goroutine holding it
    hasher,   \* HMACSha256.h, the one shared hash.Hash: what was written since Reset
    crashed,  \* the process died of a fatal fault
    reqs,     \* requests started so far
    pc,       \* where each goroutine stands
    req,      \* the request a goroutine serves: [op, ip]
    hash,     \* HandleVisit's local "hash"
    t,        \* the time.Now() HandleVisit passed to LogVisit
    country,  \* LogVisit's entry.CountryISOCode
    tx,       \* the bolt transaction of a count pass: [mem, page, todo, deleted]
    res,      \* what the call gave back: [status, err, count, counts, entry, panic]
    hist      \* per pass, for the properties: [snap, readAt, tBegin, tEnd]

vars == <<config, ActiveThreshold, now, GeoIP, db, lock, hasher, crashed, reqs, pc, req, hash, t, country, tx, res, hist>>

Nil == <<>>
NoEntries == [k \in {} |-> Nil]

Restrict(f, S) == [k \in S |-> f[k]]

NoReq == [op |-> "none", ip |-> ""]
NoTx == [mem |-> "none", page |-> NoEntries, todo |-> {}, deleted |-> {}]
NoRes == [status |-> 0, err |-> FALSE, count |-> 0, counts |-> NoEntries,
          entry |-> Nil, panic |-> FALSE]
NoHist == [snap |-> NoEntries, readAt |-> NoEntries, tBegin |-> 0, tEnd |-> 0]

\* The requests a client (or, for "get", a caller of the DB interface) can make.
Requests ==
    [op : {"visit"}, ip : IPs \cup {""}]
        \cup [op : {"count", "countries"}, ip : {""}]
        \cup [op : {"get"}, ip : IPs]

\* Where bolt keeps the bytes a cursor hands out: the read-only mmap of the file,
\* or (an inline bucket whose value is unaligned, which openBucket clones) the
\* transaction's own heap copy of the bucket page.
MemKinds == {"heap", "mmap"}

\* The bucket bolt.Open finds in the file: what earlier runs of the service left
\* there, here visits of the second the clock starts in.
Ledgers ==
    UNION {[{Fingerprint(ip) : ip \in S} -> {Encode(Entry(0, c)) : c \in Countries \cup {<<>>}}]
           : S \in SUBSET IPs}

\* No request has been served yet.
Fresh ==
    /\ now = 0
    /\ lock = 0
    /\ hasher = <<>>
    /\ crashed = FALSE
    /\ reqs = 0
    /\ pc = [p \in Procs |-> "idle"]
    /\ req = [p \in Procs |-> NoReq]
    /\ hash = [p \in Procs |-> Nil]
    /\ t = [p \in Procs |-> 0]
    /\ country = [p \in Procs |-> <<>>]
    /\ tx = [p \in Procs |-> NoTx]
    /\ res = [p \in Procs |-> NoRes]
    /\ hist = [p \in Procs |-> NoHist]

\* NewServer has returned: the configuration is loaded, the bucket is open, the
\* window is computed, the hasher is new.
Init ==
    /\ config = ConfigIni
    /\ ActiveThreshold = NewServer(config)
    /\ GeoIP \in BOOLEAN
    /\ db \in Ledgers
    /\ Fresh

\* --------------------------------------------------------------- requests
EntryPoint(op) ==
    CASE op = "visit" -> "HandleVisit"
      [] op = "count" -> "CountActive"
      [] op = "countries" -> "CountByCountry"
      [] op = "get" -> "GetEntry"

\* net/http hands a request to a goroutine.
Serve(p) ==
    /\ ~crashed
    /\ pc[p] = "idle"
    /\ reqs < MaxReqs
    /\ \E r \in Requests :
        /\ req' = [req EXCEPT ![p] = r]
        /\ pc' = [pc EXCEPT ![p] = EntryPoint(r.op)]
    /\ reqs' = reqs + 1
    /\ UNCHANGED <<config, ActiveThreshold, now, GeoIP, db, lock, hasher, crashed, hash, t, country, tx, res, hist>>

\* The handler has returned and its goroutine is free again.
Return(p) ==
    /\ ~crashed
    /\ pc[p] = "done"
    /\ pc' = [pc EXCEPT ![p] = "idle"]
    /\ req' = [req EXCEPT ![p] = NoReq]
    /\ hash' = [hash EXCEPT ![p] = Nil]
    /\ t' = [t EXCEPT ![p] = 0]
    /\ country' = [country EXCEPT ![p] = <<>>]
    /\ tx' = [tx EXCEPT ![p] = NoTx]
    /\ res' = [res EXCEPT ![p] = NoRes]
    /\ hist' = [hist EXCEPT ![p] = NoHist]
    /\ UNCHANGED <<config, ActiveThreshold, now, GeoIP, db, lock, hasher, crashed, reqs>>

Tick ==
    /\ ~crashed
    /\ now < MaxTime
    /\ now' = now + 1
    /\ UNCHANGED <<config, ActiveThreshold, GeoIP, db, lock, hasher, crashed, reqs, pc, req, hash, t, country, tx, res, hist>>

\* ------------------------------------------------------------ HandleVisit
\* HandleVisit without its check of the parameter.
HandleVisitUnchecked(p) ==
    /\ ~crashed
    /\ pc[p] = "HandleVisit"
    /\ pc' = [pc EXCEPT ![p] = "Reset"]
    /\ UNCHANGED <<config, ActiveThreshold, now, GeoIP, db, lock, hasher, crashed, reqs, req, hash, t, country, tx, res, hist>>

\* ip := r.URL.Query().Get("ip"); if ip == "" { 400; return }
HandleVisit(p) ==
    /\ ~crashed
    /\ pc[p] = "HandleVisit"
    /\ IF req[p].ip = ""
       THEN /\ res' = [res EXCEPT ![p].status = StatusBadRequest]
            /\ pc' = [pc EXCEPT ![p] = "done"]
       ELSE /\ res' = res
            /\ pc' = [pc EXCEPT ![p] = "Reset"]
    /\ UNCHANGED <<config, ActiveThreshold, now, GeoIP, db, lock, hasher, crashed, reqs, req, hash, t, country, tx, hist>>

\* Hash without its Reset.
HashNoReset(p) ==
    /\ ~crashed
    /\ pc[p] = "Reset"
    /\ hasher' = hasher
    /\ pc' = [pc EXCEPT ![p] = "Write"]
    /\ UNCHANGED <<config, ActiveThreshold, now, GeoIP, db, lock, crashed, reqs, req, hash, t, country, tx, res, hist>>

\* h.h.Reset()
HashReset(p) ==
    /\ ~crashed
    /\ pc[p] = "Reset"
    /\ hasher' = <<>>
    /\ pc' = [pc EXCEPT ![p] = "Write"]
    /\ UNCHANGED <<config, ActiveThreshold, now, GeoIP, db, lock, crashed, reqs, req, hash, t, country, tx, res, hist>>

\* h.h.Write([]byte(in))
HashWrite(p) ==
    /\ ~crashed
    /\ pc[p] = "Write"
    /\ hasher' = Append(hasher, req[p].ip)
    /\ pc' = [pc EXCEPT ![p] = "Sum"]
    /\ UNCHANGED <<config, ActiveThreshold, now, GeoIP, db, lock, crashed, reqs, req, hash, t, country, tx, res, hist>>

\* return h.h.Sum(nil)
HashSum(p) ==
    /\ ~crashed
    /\ pc[p] = "Sum"
    /\ hash' = [hash EXCEPT ![p] = Sum(hasher)]
    /\ pc' = [pc EXCEPT ![p] = "Now"]
    /\ UNCHANGED <<config, ActiveThreshold, now, GeoIP, db, lock, hasher, crashed, reqs, req, t, country, tx, res, hist>>

\* What b.GeoDB.Country(net.ParseIP(ip)) can leave in entry.CountryISOCode: the
\* reader's answer, or nothing (an error, or an address the database does not hold).
Lookups(ip) == {IF ip = "a" THEN US ELSE FR, <<>>}

\* s.db.LogVisit(hash, time.Now(), ip): the argument time.Now() is read here, and
\* LogVisit builds its entry (with the country when GeoIP is on) before it locks.
LogVisitEntry(p) ==
    /\ ~crashed
    /\ pc[p] = "Now"
    /\ t' = [t EXCEPT ![p] = now]
    /\ \E c \in (IF GeoIP THEN Lookups(req[p].ip) ELSE {<<>>}) :
        country' = [country EXCEPT ![p] = c]
    /\ pc' = [pc EXCEPT ![p] = "Lock"]
    /\ UNCHANGED <<config, ActiveThreshold, now, GeoIP, db, lock, hasher, crashed, reqs, req, hash, tx, res, hist>>

\* LogVisit going on without waiting for the lock.
LogVisitNoLock(p) ==
    /\ ~crashed
    /\ pc[p] = "Lock"
    /\ lock' = p
    /\ pc' = [pc EXCEPT ![p] = "Put"]
    /\ UNCHANGED <<config, ActiveThreshold, now, GeoIP, db, hasher, crashed, reqs, req, hash, t, country, tx, res, hist>>

\* b.lock.Lock()
LogVisitLock(p) ==
    /\ ~crashed
    /\ pc[p] = "Lock"
    /\ lock = 0
    /\ lock' = p
    /\ pc' = [pc EXCEPT ![p] = "Put"]
    /\ UNCHANGED <<config, ActiveThreshold, now, GeoIP, db, hasher, crashed, reqs, req, hash, t, country, tx, res, hist>>

\* bucket.Put(hash, entry.Encode()) in a committed transaction
Put(bucket, key, value) == [k \in DOMAIN bucket \cup {key} |-> IF k = key THEN value ELSE bucket[k]]

\* b.db.Update(Put), the deferred Unlock, and HandleVisit's tail: the error
\* LogVisit returns is dropped and 200 is written.  ok = FALSE is a transaction
\* that failed (a storage error): bolt rolls it back.
LogVisitUpdate(p) ==
    /\ ~crashed
    /\ pc[p] = "Put"
    /\ \E ok \in BOOLEAN :
        /\ db' = IF ok THEN Put(db, hash[p], Encode(Entry(t[p], country[p]))) ELSE db
        /\ res' = [res EXCEPT ![p].err = ~ok, ![p].status = StatusOK]
    /\ lock' = 0
    /\ pc' = [pc EXCEPT ![p] = "done"]
    /\ UNCHANGED <<config, ActiveThreshold, now, GeoIP, hasher, crashed, reqs, req, hash, t, country, tx, hist>>

\* ------------------------------------------------------------ count passes
\* b.lock.Lock() and the start of b.db.Update: the transaction sees the committed
\* bucket.  Its cursor reads that page for the whole of ForEach; bucket.Delete
\* works on the transaction's node of the bucket and leaves the page alone.
Begin(p) ==
    /\ lock = 0
    /\ lock' = p
    /\ \E m \in (IF \E k \in DOMAIN db : DecodeEntryWrites(db[k]) THEN MemKinds ELSE {"heap"}) :
        tx' = [tx EXCEPT ![p] = [mem |-> m, page |-> db, todo |-> DOMAIN db, deleted |-> {}]]
    /\ hist' = [hist EXCEPT ![p] = [snap |-> db, readAt |-> NoEntries, tBegin |-> now, tEnd |-> now]]
    /\ pc' = [pc EXCEPT ![p] = "ForEach"]

CountActiveLock(p) ==
    /\ ~crashed
    /\ pc[p] = "CountActive"
    /\ Begin(p)
    /\ res' = [res EXCEPT ![p].count = 0]
    /\ UNCHANGED <<config, ActiveThreshold, now, GeoIP, db, hasher, crashed, reqs, req, hash, t, country>>

\* counts = map[string]int{"Total": 0}
CountByCountryLock(p) ==
    /\ ~crashed
    /\ pc[p] = "CountByCountry"
    /\ Begin(p)
    /\ res' = [res EXCEPT ![p].counts = [k \in {KeyTotal} |-> 0]]
    /\ UNCHANGED <<config, ActiveThreshold, now, GeoIP, db, hasher, crashed, reqs, req, hash, t, country>>

\* if _, ok := counts[key]; !ok { counts[key] = 0 }; counts[key]++
Incr(counts, key) ==
    [k \in DOMAIN counts \cup {key} |-> IF k = key
                                        THEN (IF key \in DOMAIN counts THEN counts[key] ELSE 0) + 1
                                        ELSE counts[k]]

\* The callback's body without the "Unknown" case.
TallyNoUnknown(counts, e) == Incr(Incr(counts, KeyTotal), e.CountryISOCode)

\* The callback's body without counts["Total"]++.
TallyNoTotal(counts, e) ==
    Incr(counts, IF e.CountryISOCode = <<>> THEN KeyUnknown ELSE e.CountryISOCode)

\* The body of CountByCountry's callback for an active entry.
Tally(counts, e) ==
    Incr(Incr(counts, KeyTotal), IF e.CountryISOCode = <<>> THEN KeyUnknown ELSE e.CountryISOCode)

\* DecodeEntry(v) stores into v when the record carries a country.  v is bolt's
\* memory: a store into the mmap is a fatal fault (the process dies, nothing is
\* committed); a store into the transaction's heap copy changes that copy.
Faults(p, k) == tx[p].mem = "mmap" /\ DecodeEntryWrites(tx[p].page[k])

\* One call of ForEach's callback, on key k.  The cursor walks the keys in the
\* order of their digests, which is no order of the addresses: any key not yet
\* seen can be the next.  Valid reads the clock anew on every call.
Each(p, k) ==
    /\ k \in tx[p].todo
    /\ ~Faults(p, k)
    /\ tx' = [tx EXCEPT ![p].todo = @ \ {k},
                        ![p].page[k] = DecodeEntryBuf(@),
                        ![p].deleted = IF Valid(DecodeEntry(tx[p].page[k]).LastVisit, now)
                                       THEN @ ELSE @ \cup {k}]
    /\ hist' = [hist EXCEPT ![p].readAt = [j \in DOMAIN @ \cup {k} |-> IF j = k THEN now ELSE @[j]]]

\* CountActive's callback with count++ outside the test.
CountActiveEachAlways(p) ==
    /\ ~crashed
    /\ pc[p] = "ForEach"
    /\ req[p].op = "count"
    /\ \E k \in tx[p].todo :
        /\ Each(p, k)
        /\ res' = [res EXCEPT ![p].count = @ + 1]
    /\ UNCHANGED <<config, ActiveThreshold, now, GeoIP, db, lock, hasher, crashed, reqs, pc, req, hash, t, country>>

CountActiveEach(p) ==
    /\ ~crashed
    /\ pc[p] = "ForEach"
    /\ req[p].op = "count"
    /\ \E k \in tx[p].todo :
        /\ Each(p, k)
        /\ res' = [res EXCEPT ![p].count =
                      IF Valid(DecodeEntry(tx[p].page[k]).LastVisit, now) THEN @ + 1 ELSE @]
    /\ UNCHANGED <<config, ActiveThreshold, now, GeoIP, db, lock, hasher, crashed, reqs, pc, req, hash, t, country>>

CountByCountryEach(p) ==
    /\ ~crashed
    /\ pc[p] = "ForEach"
    /\ req[p].op = "countries"
    /\ \E k \in tx[p].todo :
        /\ Each(p, k)
        /\ res' = [res EXCEPT ![p].counts =
                      IF Valid(DecodeEntry(tx[p].page[k]).LastVisit, now)
                      THEN Tally(@, DecodeEntry(tx[p].page[k])) ELSE @]
    /\ UNCHANGED <<config, ActiveThreshold, now, GeoIP, db, lock, hasher, crashed, reqs, pc, req, hash, t, country>>

\* The store of DecodeEntry hits read-only memory: "unexpected fault address",
\* which no recover() catches.
Fault(p) ==
    /\ ~crashed
    /\ pc[p] = "ForEach"
    /\ \E k \in tx[p].todo : Faults(p, k)
    /\ crashed' = TRUE
    /\ UNCHANGED <<config, ActiveThreshold, now, GeoIP, db, lock, hasher, reqs, pc, req, hash, t, country, tx, res, hist>>

\* What a committed pass leaves in the bucket.  Without a Delete the transaction
\* has no node of the bucket and writes nothing.  With one, the node is written
\* back, and its values are the slices of the page the callback was given.
Committed(p) ==
    IF tx[p].deleted = {} THEN db
    ELSE Restrict(tx[p].page, DOMAIN tx[p].page \ tx[p].deleted)

\* ForEach is over: Update commits (ok) or fails and rolls back; Update's error
\* is dropped, the deferred Unlock runs, the count is returned and written out.
Finish(p) ==
    /\ ~crashed
    /\ pc[p] = "ForEach"
    /\ tx[p].todo = {}
    /\ \E ok \in BOOLEAN :
        /\ db' = IF ok THEN Committed(p) ELSE db
        /\ res' = [res EXCEPT ![p].err = ~ok, ![p].status = StatusOK]
    /\ lock' = 0
    /\ hist' = [hist EXCEPT ![p].tEnd = now]
    /\ pc' = [pc EXCEPT ![p] = "done"]
    /\ UNCHANGED <<config, ActiveThreshold, now, GeoIP, hasher, crashed, reqs, req, hash, t, country, tx>>

\* --------------------------------------------------------------- GetEntry
\* b.db.View: bucket.Get(hash) is nil for a key the bucket does not hold, and
\* DecodeEntry(nil) indexes b[8]: a run-time panic.  No lock is taken.
GetEntry(p) ==
    /\ ~crashed
    /\ pc[p] = "GetEntry"
    /\ LET k == Fingerprint(req[p].ip) IN
        IF k \notin DOMAIN db
        THEN /\ res' = [res EXCEPT ![p].panic = TRUE]
             /\ pc' = [pc EXCEPT ![p] = "done"]
             /\ crashed' = crashed
        ELSE \E m \in MemKinds :
                IF m = "mmap" /\ DecodeEntryWrites(db[k])
                THEN /\ crashed' = TRUE
                     /\ UNCHANGED <<res, pc>>
                ELSE /\ res' = [res EXCEPT ![p].entry = DecodeEntry(db[k])]
                     /\ pc' = [pc EXCEPT ![p] = "done"]
                     /\ crashed' = crashed
    /\ UNCHANGED <<config, ActiveThreshold, now, GeoIP, db, lock, hasher, reqs, req, hash, t, country, tx, hist>>

\* ------------------------------------------------------------------ system
Next ==
    \/ Tick
    \/ \E p \in Procs :
        \/ Serve(p)
        \/ Return(p)
        \/ HandleVisit(p)
        \/ HashReset(p)
        \/ HashWrite(p)
        \/ HashSum(p)
        \/ LogVisitEntry(p)
        \/ LogVisitLock(p)
        \/ LogVisitUpdate(p)
        \/ CountActiveLock(p)
        \/ CountByCountryLock(p)
        \/ CountActiveEach(p)
        \/ CountByCountryEach(p)
        \/ Fault(p)
        \/ Finish(p)
        \/ GetEntry(p)

Spec == Init /\ [][Next]_vars

\* ------------------------------------------------------------ properties
Max(x, y) == IF x >= y THEN x ELSE y

\* A finished count-active / count-by-country call.
Counted(p) == pc[p] = "done" /\ req[p].op = "count"
Tallied(p) == pc[p] = "done" /\ req[p].op = "countries"

\* lastVisit and country code of a stored value, read off its bytes.
LastVisitOf(v) == TimeUnix(Uint64(SubSeq(v, 1, 8)))
CodeOf(v) == SelectSeq(SubSeq(v, 9, 16), NonZero)

\* The records of ledger l whose lastVisit + duration is later than clock.
ActiveAt(l, clock) == {k \in DOMAIN l : LastVisitOf(l[k]) + Duration > clock}

\* The records a pass found active: each judged at the clock reading of its own call.
ActiveAsRead(p) ==
    {k \in DOMAIN hist[p].readAt : LastVisitOf(hist[p].snap[k]) + Duration > hist[p].readAt[k]}

\* C1 as amended: count-active returns the number of ledger records whose
\* lastVisit + duration is later than the clock reading taken when the scan
\* reached that record; every record of the ledger is read exactly once, at a
\* reading between the start and the end of the pass.
C1_CountsRecordsActiveAsRead ==
    \A p \in Procs : Counted(p) =>
        /\ DOMAIN hist[p].readAt = DOMAIN hist[p].snap
        /\ \A k \in DOMAIN hist[p].readAt :
              hist[p].tBegin <= hist[p].readAt[k] /\ hist[p].readAt[k] <= hist[p].tEnd
        /\ res[p].count = Cardinality(ActiveAsRead(p))

\* C1 witness: a count over two records read at different clock readings, one
\* found active and one found stale.
C1_Witness ==
    \E p \in Procs :
        /\ Counted(p)
        /\ Cardinality(DOMAIN hist[p].snap) = 2
        /\ res[p].count = 1
        /\ \E j, k \in DOMAIN hist[p].readAt : hist[p].readAt[j] # hist[p].readAt[k]

\* C1 as stated (on a pass whose transaction committed): the count is the number
\* of records active at the time of the scan, for one time between the start and
\* the end of the pass.
C1_CountsRecordsActiveAtScanTime ==
    \A p \in Procs : Counted(p) /\ ~res[p].err =>
        \E T \in hist[p].tBegin .. hist[p].tEnd :
            res[p].count = Cardinality(ActiveAt(hist[p].snap, T))

\* C2: when a count pass completes, every record that was stale when the pass
\* began is gone from the ledger right after the pass.
C2_StaleRecordsGoneAfterPass ==
    [][\A p \in Procs :
          (pc[p] = "ForEach" /\ pc'[p] = "done") =>
              \A k \in DOMAIN hist[p].snap :
                  (LastVisitOf(hist[p].snap[k]) + Duration <= hist[p].tBegin) => k \notin DOMAIN db']_vars

\* Two finished record-visit calls of different goroutines.
BothVisited(p, q) ==
    /\ p # q
    /\ pc[p] = "done" /\ req[p].op = "visit" /\ req[p].ip # ""
    /\ pc[q] = "done" /\ req[q].op = "visit" /\ req[q].ip # ""
    /\ ~res[p].err /\ ~res[q].err

\* C3: after record-visit calls for one address have completed, also concurrent
\* ones, the ledger holds one record for the address and its lastVisit is the
\* latest of the times the calls took (here for two calls whose writes both
\* succeeded under the address's own fingerprint).
C3_LastVisitIsLatest ==
    \A p, q \in Procs :
        (BothVisited(p, q) /\ req[p].ip = req[q].ip
            /\ hash[p] = Fingerprint(req[p].ip) /\ hash[q] = Fingerprint(req[q].ip)) =>
                /\ Fingerprint(req[p].ip) \in DOMAIN db
                /\ LastVisitOf(db[Fingerprint(req[p].ip)]) = TimeUnix(Unix(Max(t[p], t[q])))

\* C4: after concurrent record-visit calls for distinct addresses have all
\* returned (their writes succeeded), the ledger holds a record under the
\* fingerprint of each address.
C4_EveryVisitorStored ==
    \A p, q \in Procs :
        (BothVisited(p, q) /\ req[p].ip # req[q].ip) =>
            /\ Fingerprint(req[p].ip) \in DOMAIN db
            /\ Fingerprint(req[q].ip) \in DOMAIN db

\* C5: put and the count pass exclude each other for the whole pass: whoever is
\* in a transaction holds the lock, and from the start of a pass to its commit
\* the ledger is the one the pass began with (no record-visit write lands).
C5_PassExcludesPut ==
    \A p \in Procs :
        /\ pc[p] \in {"ForEach", "Put"} => lock = p
        /\ pc[p] = "ForEach" => db = hist[p].snap

\* C5 witness: a pass in the middle of its scan while a record-visit waits for the lock.
C5_Witness ==
    \E p, q \in Procs :
        /\ pc[p] = "ForEach" /\ tx[p].todo # {} /\ DOMAIN hist[p].readAt # {}
        /\ pc[q] = "Lock"

RECURSIVE SumOver(_, _)
SumOver(f, S) == IF S = {} THEN 0 ELSE LET k == CHOOSE x \in S : TRUE IN f[k] + SumOver(f, S \ {k})

\* The records a pass found active that carry country code c (<<>>: none).
ActiveWithCode(p, c) == {k \in ActiveAsRead(p) : CodeOf(hist[p].snap[k]) = c}

\* C6: count-by-country returns a histogram whose "Total" is the number of
\* active records, whose country keys are the codes of the active records, each
\* with the number of active records carrying it, whose "Unknown" is the number
\* of active records with an empty code, with no key of value 0 besides
\* "Total", and whose "Total" is the sum of the other values.
C6_HistogramOfActiveRecords ==
    \A p \in Procs : Tallied(p) =>
        LET counts == res[p].counts
            others == DOMAIN counts \ {KeyTotal}
        IN /\ KeyTotal \in DOMAIN counts
           /\ counts[KeyTotal] = Cardinality(ActiveAsRead(p))
           /\ others \ {KeyUnknown} = {CodeOf(hist[p].snap[k]) : k \in ActiveAsRead(p)} \ {<<>>}
           /\ \A c \in others \ {KeyUnknown} : counts[c] = Cardinality(ActiveWithCode(p, c))
           /\ KeyUnknown \in others <=> ActiveWithCode(p, <<>>) # {}
           /\ KeyUnknown \in others => counts[KeyUnknown] = Cardinality(ActiveWithCode(p, <<>>))
           /\ \A c \in others : counts[c] > 0
           /\ counts[KeyTotal] = SumOver(counts, others)

\* C6 witness: a returned histogram with "Total" 2, a country key and "Unknown".
C6_Witness ==
    \E p \in Procs :
        /\ Tallied(p)
        /\ res[p].counts[KeyTotal] = 2
        /\ KeyUnknown \in DOMAIN res[p].counts
        /\ DOMAIN res[p].counts \ {KeyTotal, KeyUnknown} # {}

\* The keys a pass in progress, or finished, has read so far.
Seen(p) == IF pc[p] \in {"ForEach", "done"} /\ req[p].op \in {"count", "countries"}
           THEN DOMAIN hist[p].readAt ELSE {}

\* C7: a record is active iff lastVisit + duration is strictly later than now:
\* one read when lastVisit = now - duration is deleted by the pass, one read
\* when lastVisit = now - duration + 1 second is kept (and counted); and a pass
\* whose transaction commits leaves in the ledger exactly the records it read
\* as active.
C7_ThresholdIsStrict ==
    /\ [](\A p \in Procs : \A k \in Seen(p) :
            LET lastVisit == LastVisitOf(hist[p].snap[k])
                clock == hist[p].readAt[k]
            IN /\ k \notin tx[p].deleted <=> lastVisit + Duration > clock
               /\ lastVisit = clock - Duration => k \in tx[p].deleted
               /\ lastVisit = clock - Duration + Second => k \notin tx[p].deleted)
    /\ [][\A p \in Procs :
            (pc[p] = "ForEach" /\ pc'[p] = "done" /\ ~res'[p].err) =>
                \A k \in DOMAIN hist[p].readAt :
                    k \in DOMAIN db' <=> LastVisitOf(hist[p].snap[k]) + Duration > hist[p].readAt[k]]_vars

\* C7 witness: one pass that met both boundaries and counted the one record it kept.
C7_Witness ==
    \E p \in Procs : \E j, k \in Seen(p) :
        /\ Counted(p) /\ res[p].count = 1 /\ ~res[p].err
        /\ LastVisitOf(hist[p].snap[j]) = hist[p].readAt[j] - Duration
        /\ j \in tx[p].deleted /\ j \notin DOMAIN db
        /\ LastVisitOf(hist[p].snap[k]) = hist[p].readAt[k] - Duration + Second
        /\ k \notin tx[p].deleted /\ k \in DOMAIN db

\* A record-visit whose address is empty or absent.
NoAddress(p) == req[p].op = "visit" /\ req[p].ip = ""

\* C8: record-visit with an empty or absent address returns a client error and
\* leaves the ledger unchanged: the call ends at its first step with status
\* 400, and that step touches neither the ledger nor the lock nor the hasher.
C8_NoAddressIsClientError ==
    /\ [](\A p \in Procs : NoAddress(p) =>
            /\ pc[p] \in {"HandleVisit", "done"}
            /\ pc[p] = "done" => res[p].status = StatusBadRequest)
    /\ [][\A p \in Procs : (NoAddress(p) /\ pc'[p] # pc[p] /\ pc[p] = "HandleVisit") =>
            /\ pc'[p] = "done"
            /\ db' = db /\ lock' = lock /\ hasher' = hasher]_vars

\* C8 witness: such a call has returned 400 on a ledger that holds a record.
C8_Witness ==
    \E p \in Procs :
        NoAddress(p) /\ pc[p] = "done" /\ res[p].status = StatusBadRequest /\ DOMAIN db # {}

\* C9: get(fingerprint) for a key the ledger does not hold returns none and
\* does not panic.
C9_GetOfAbsentKeyIsNone ==
    [][\A p \in Procs :
          (pc[p] = "GetEntry" /\ pc'[p] = "done" /\ Fingerprint(req[p].ip) \notin DOMAIN db) =>
              res'[p].entry = Nil /\ ~res'[p].panic]_vars

\* C10: when the ledger write inside record-visit fails, the caller gets an
\* error status, never a success status.
C10_WriteFailureIsReported ==
    \A p \in Procs :
        (pc[p] = "done" /\ req[p].op = "visit" /\ res[p].err) =>
            res[p].status >= 500 /\ res[p].status # StatusOK

\* A count pass ends: ForEach is over and Update returns.
PassEnds(p) == pc[p] = "ForEach" /\ pc'[p] = "done"

\* C11: if a storage failure occurs during a count pass, the ledger is left
\* exactly as it was before the pass began, nothing of the eviction committed,
\* and the failure is reported to the caller instead of a count: the call ends
\* with an error status.
C11_PassFailureIsReported ==
    /\ [][\A p \in Procs : (PassEnds(p) /\ res'[p].err) => db' = hist[p].snap]_vars
    /\ [](\A p \in Procs :
            (pc[p] = "done" /\ req[p].op \in {"count", "countries"} /\ res[p].err) =>
                res[p].status >= 500 /\ res[p].status # StatusOK)

\* ------------------------------------------------- the codec on any record
\* Country codes of every length the field holds, 0 to 8 bytes, none of them zero.
CodeBytes == <<85, 83, 255, 1, 65, 90, 97, 122>>
Codes == {SubSeq(CodeBytes, 1, n) : n \in 0..Len(CodeBytes)}

\* Clock readings whose seconds take one to four bytes, with and without a
\* fraction of a second.
Times == {0, 1, 3, (255 * Second) + 1, 256 * Second, 65536 * Second, (16777216 * Second) + 1}

\* A record-visit for "a" stands in LogVisit before b.lock.Lock(): its entry is
\* built, with any of the clock readings and any of the codes; the bucket is new.
InitCodec ==
    /\ config = ConfigIni
    /\ ActiveThreshold = NewServer(config)
    /\ GeoIP = TRUE
    /\ db = NoEntries
    /\ now \in Times
    /\ lock = 0
    /\ hasher = <<"a">>
    /\ crashed = FALSE
    /\ reqs = 1
    /\ pc = [p \in Procs |-> IF p = 1 THEN "Lock" ELSE "idle"]
    /\ req = [p \in Procs |-> IF p = 1 THEN [op |-> "visit", ip |-> "a"] ELSE NoReq]
    /\ hash = [p \in Procs |-> IF p = 1 THEN Fingerprint("a") ELSE Nil]
    /\ t = [p \in Procs |-> IF p = 1 THEN now ELSE 0]
    /\ \E c \in Codes : country = [p \in Procs |-> IF p = 1 THEN c ELSE <<>>]
    /\ tx = [p \in Procs |-> NoTx]
    /\ res = [p \in Procs |-> NoRes]
    /\ hist = [p \in Procs |-> NoHist]

SpecCodec == InitCodec /\ [][Next]_vars

\* A record-visit writes its entry and the write commits.
Stores(p) == pc[p] = "Put" /\ pc'[p] = "done" /\ ~res'[p].err

\* A get of the key k returns an entry.
Gets(q, k) ==
    /\ pc[q] = "GetEntry" /\ pc'[q] = "done" /\ ~res'[q].panic
    /\ k = Fingerprint(req[q].ip) /\ k \in DOMAIN db

Quiet == \A q \in Procs : pc[q] \in {"idle", "done"}

\* A client that sends its next request when it has the response to the last:
\* the calls on the one hasher follow each other.
NextSeq ==
    \/ Tick
    \/ \E p \in Procs :
        \/ Quiet /\ Serve(p)
        \/ Return(p)
        \/ HandleVisit(p)
        \/ HashReset(p)
        \/ HashWrite(p)
        \/ HashSum(p)
        \/ LogVisitEntry(p)
        \/ LogVisitLock(p)
        \/ LogVisitUpdate(p)
        \/ CountActiveLock(p)
        \/ CountByCountryLock(p)
        \/ CountActiveEach(p)
        \/ CountByCountryEach(p)
        \/ Fault(p)
        \/ Finish(p)
        \/ GetEntry(p)

SpecSeq == Init /\ [][NextSeq]_vars

\* Hash(ip) has returned in the record-visit goroutine p serves.
Hashed(p) == req[p].op = "visit" /\ req[p].ip # "" /\ pc[p] \in {"Now", "Lock", "Put", "done"}

\* C13: on one hasher instance reused over a sequence of calls, Hash(address)
\* returns the keyed digest of (secret, address) alone, whatever addresses were
\* hashed on the instance before it; two calls for one address return the same
\* value.
C13_FingerprintOfSecretAndAddress ==
    /\ \A p \in Procs : Hashed(p) => hash[p] = <<Secret, <<req[p].ip>>>>
    /\ \A p, q \in Procs : (Hashed(p) /\ Hashed(q) /\ req[p].ip = req[q].ip) => hash[p] = hash[q]

\* C13 witness: Hash has returned for an address after the same instance had
\* hashed another address in an earlier call.
C13_Witness ==
    \E p, q \in Procs :
        /\ p # q /\ Hashed(p) /\ pc[p] = "done"
        /\ Hashed(q) /\ req[q].ip # req[p].ip
        /\ pc[q] = "Now" /\ hasher = <<req[q].ip>>
        /\ hash[q] = Fingerprint(req[q].ip)

\* C14: when the country lookup fails or is disabled, record-visit still stores
\* the visitor's record (under the fingerprint of the visitor's address), with
\* an empty country code, and answers with success; and a count-by-country that
\* finds such a record active counts it under "Unknown".
C14_LookupFailureStoresUnknown ==
    /\ [][\A p \in Procs : (Stores(p) /\ country[p] = <<>>) =>
            /\ Fingerprint(req[p].ip) \in DOMAIN db'
            /\ db'[Fingerprint(req[p].ip)] = Encode(Entry(t[p], <<>>))
            /\ res'[p].status = StatusOK]_vars
    /\ [](\A q \in Procs : (Tallied(q) /\ ActiveWithCode(q, <<>>) # {}) =>
            /\ KeyUnknown \in DOMAIN res[q].counts
            /\ res[q].counts[KeyUnknown] = Cardinality(ActiveWithCode(q, <<>>)))

\* ------------------------------------------- startup under any config.ini
\* The values a key is set to, and the files: each of days, hours, minutes set
\* or left out.
Values == {0, 1}
Configs == UNION {[S -> Values] : S \in SUBSET {"days", "hours", "minutes"}}

\* NewServer has returned under any of the files, on a bucket that holds one
\* record.
InitAnyConfig ==
    /\ config \in Configs
    /\ ActiveThreshold = NewServer(config)
    /\ GeoIP = TRUE
    /\ db = [k \in {Fingerprint("a")} |-> Encode(Entry(0, US))]
    /\ Fresh

SpecAnyConfig == InitAnyConfig /\ [][Next]_vars

\* What the file says for a key, with the documented default when it says nothing.
Configured(key, default) == IF key \in DOMAIN config THEN config[key] ELSE default

\* C15: the active window is days*24h + hours*1h + minutes*1m with days, hours,
\* minutes defaulting to 0, 2, 0; it is what NewServer computed and no request
\* changes it; a configuration that sets none of the three yields exactly 2
\* hours, not zero.
C15_WindowFromConfig ==
    /\ [](/\ ActiveThreshold = (Configured("days", 0) * 24 * Hour)
                                   + (Configured("hours", 2) * Hour)
                                   + (Configured("minutes", 0) * Minute)
          /\ DOMAIN config = {} => (ActiveThreshold = 2 * Hour /\ ActiveThreshold # 0))
    /\ [][ActiveThreshold' = ActiveThreshold /\ config' = config]_vars

\* C15 witness: under a file that sets none of the keys, a count pass has found
\* active a record a whole minute old.
C15_Witness ==
    \E p \in Procs : \E k \in DOMAIN hist[p].readAt :
        /\ DOMAIN config = {}
        /\ Counted(p) /\ res[p].count = 1
        /\ hist[p].readAt[k] - LastVisitOf(hist[p].snap[k]) >= Minute
        /\ ActiveThreshold = 2 * Hour

\* C16: a record leaves the ledger only through a count pass, and only when the
\* pass read it as stale (lastVisit + duration not later than the clock of the
\* read); and record-visit for one address neither removes nor alters the
\* record of any other address.
C16_OnlyStaleRecordsLeave ==
    /\ [][\A k \in DOMAIN db : k \notin DOMAIN db' =>
            \E p \in Procs :
                /\ PassEnds(p)
                /\ k \in DOMAIN hist[p].readAt
                /\ LastVisitOf(hist[p].snap[k]) + Duration <= hist[p].readAt[k]]_vars
    /\ [][\A p \in Procs : (pc[p] = "Put" /\ pc'[p] = "done") =>
            \A k \in DOMAIN db :
                k # Fingerprint(req[p].ip) => (k \in DOMAIN db' /\ db'[k] = db[k])]_vars

\* Pass q ran after pass p on the records p kept, none of them renewed by a
\* record-visit in between and none of them expired.
Consecutive(p, q) ==
    /\ p # q /\ Tallied(p) /\ Tallied(q)
    /\ hist[p].tEnd <= hist[q].tBegin
    /\ DOMAIN hist[q].snap = ActiveAsRead(p)
    /\ ActiveAsRead(q) = ActiveAsRead(p)
    /\ \A k \in ActiveAsRead(p) : LastVisitOf(hist[q].snap[k]) = LastVisitOf(hist[p].snap[k])

\* C17: a count pass leaves every record it finds active unchanged in the
\* ledger, its lastVisit and its country code; so two consecutive
\* count-by-country calls with no record-visit in between and no record
\* reaching expiry return the same histogram.
C17_PassKeepsActiveRecords ==
    /\ [][\A p \in Procs : PassEnds(p) =>
            \A k \in ActiveAsRead(p) : k \in DOMAIN db' /\ db'[k] = hist[p].snap[k]]_vars
    /\ [](\A p, q \in Procs : Consecutive(p, q) => res[q].counts = res[p].counts)

\* A count-active pass p and a count-by-country pass q that ran on the same
\* ledger state and read every record at the same clock reading.
SameRun(p, q) ==
    /\ Counted(p) /\ Tallied(q)
    /\ hist[p].snap = hist[q].snap
    /\ hist[p].readAt = hist[q].readAt

\* C18: run on the same ledger state at the same time, count-active returns the
\* number count-by-country returns under "Total", and the two passes delete the
\* same set of records.
C18_CountIsTotal ==
    \A p, q \in Procs : SameRun(p, q) =>
        /\ res[p].count = res[q].counts[KeyTotal]
        /\ tx[p].deleted = tx[q].deleted

\* C18 witness: the two passes ran one after the other on a ledger of two
\* records, at one clock reading, and both found the two records active.
C18_Witness ==
    \E p, q \in Procs :
        /\ SameRun(p, q)
        /\ Cardinality(DOMAIN hist[p].snap) = 2
        /\ res[p].count = 2 /\ res[q].counts[KeyTotal] = 2

\* ------------------------------------------------ progress of the requests
\* NewServer has returned on a bucket that holds one record with a country.
InitOneRecord ==
    /\ config = ConfigIni
    /\ ActiveThreshold = NewServer(config)
    /\ GeoIP = TRUE
    /\ db = [k \in {Fingerprint("a")} |-> Encode(Entry(0, US))]
    /\ Fresh

\* A step of goroutine p in a handler, other than waiting for the lock.
Runs(p) ==
    \/ HandleVisit(p)
    \/ HashReset(p)
    \/ HashWrite(p)
    \/ HashSum(p)
    \/ LogVisitEntry(p)
    \/ LogVisitUpdate(p)
    \/ CountActiveEach(p)
    \/ CountByCountryEach(p)
    \/ Fault(p)
    \/ Finish(p)
    \/ Return(p)

\* b.lock.Lock() in whichever call goroutine p is in.
Locks(p) == LogVisitLock(p) \/ CountActiveLock(p) \/ CountByCountryLock(p)

\* The three routes of Server.Serve: GetEntry is behind none of them.
NextHTTP ==
    \/ Tick
    \/ \E p \in Procs :
        \/ Serve(p) /\ req'[p].op # "get"
        \/ Runs(p)
        \/ Locks(p)

\* The Go scheduler runs every runnable goroutine, and sync.Mutex hands the lock
\* to a goroutine that has waited for it (starvation mode).
FairSpec ==
    /\ InitOneRecord
    /\ [][NextHTTP]_vars
    /\ \A p \in Procs : WF_vars(Runs(p)) /\ SF_vars(Locks(p))

\* C19: every record-visit and every count pass that acquires the ledger lock
\* eventually releases it, and every request a goroutine has begun to serve
\* eventually completes.
C19_LockReleasedRequestsComplete ==
    \A p \in Procs :
        /\ (lock = p) ~> (lock # p)
        /\ (pc[p] \notin {"idle", "done"}) ~> (pc[p] = "done")

====
